---- MODULE Spec2Model ----
(***************************************************************************)
(* Hand-gesture command pipeline of ML_TASK:                               *)
(*   landmarks -> GestureClassifier.classify -> smooth_gesture             *)
(*             -> 10-of-12 validation window (hand_gesture.main)           *)
(*                                                                         *)
(* Numbers.  Landmark coordinates are integers in hundredths of the        *)
(* normalised frame (0.05 is 5).  Confidences are integers in units of     *)
(* 1/600 (0.01 is 6, 1.0 is 600), so that the mean of two or three raw     *)
(* confidences and the half of a raw confidence are integers again.  The   *)
(* arithmetic is exact; the rounding of IEEE doubles is not modelled.      *)
(***************************************************************************)
EXTENDS Integers, Sequences, FiniteSets, TLC

VARIABLES
    landmarks,              \* classify: the observation being classified
    handedness,             \* classify: 'Left' or 'Right'
    classified,             \* classify: the returned (gesture, confidence), <<>> before the call
    gesture_history,        \* GestureClassifier.gesture_history
    smoothed,               \* last value returned by smooth_gesture, <<>> before the first call
    prev_input,             \* argument of the call before the last one, <<>> if none
    cur_input,              \* argument of the last smooth_gesture call, <<>> if none
    run_n,                  \* length of the current run of identical arguments (saturates at MaxRun)
    run_first,              \* smoothed confidence returned on the first call of the current run
    gesture_frame_history,  \* main: the validation buffer
    validated_gesture,      \* main: validated_gesture of the last processed observation ("None" if none)
    pre_check,              \* the buffer of the last observation after append and eviction, before the check
    stream_first,           \* first smoothed result of the stream fed since the start, <<>> if none
    stream_n,               \* number of results fed while the stream was constant
    stream_ok,              \* TRUE while every result fed so far equals stream_first
    emit_frames,            \* the frames of the constant stream on which a command was emitted
    frame_count,            \* main: frame_count
    out,                    \* per hand slot: last <<smoothed result, validated_gesture>> produced by main
    iso_history,            \* per hand slot: smoothing history of a classifier fed this slot's stream only
    iso_buffer,             \* per hand slot: validation buffer fed this slot's stream only
    iso_out,                \* per hand slot: last output of the isolated smoother and window
    display_cmd,            \* main: (cmd_text, cmd_color) of the validated command of the last observation, <<>> if none
    critical_border,        \* main: TRUE iff the last observation drew the border of a critical command
    lookup                  \* last direct call of the command mapper: <<key, (text, color), critical>>, <<>> before

classifyVars == <<landmarks, handedness, classified>>
smoothVars   == <<gesture_history, smoothed, prev_input, cur_input, run_n, run_first>>
windowVars   == <<gesture_frame_history, validated_gesture, pre_check,
                  stream_first, stream_n, stream_ok, emit_frames>>
mainVars     == <<frame_count, out, iso_history, iso_buffer, iso_out>>
commandVars  == <<display_cmd, critical_border, lookup>>
vars == <<classifyVars, smoothVars, windowVars, mainVars, commandVars>>

----------------------------------------------------------------------------
(* Small helpers *)

Abs(n) == IF n < 0 THEN -n ELSE n

Min2(a, b) == IF a < b THEN a ELSE b

RECURSIVE SumConf(_)
SumConf(s) == IF s = <<>> THEN 0 ELSE s[1][2] + SumConf(Tail(s))

CountName(s, g) == Len(SelectSeq(s, LAMBDA e : e[1] = g))

LastN(s, n) == IF Len(s) <= n THEN s ELSE SubSeq(s, Len(s) - n + 1, Len(s))

SetMax(S) == CHOOSE m \in S : \A x \in S : x <= m

SetMin(S) == CHOOSE m \in S : \A x \in S : m <= x

----------------------------------------------------------------------------
(* GestureClassifier: landmark indices *)

WRIST == 0
THUMB_TIP == 4
INDEX_TIP == 8
MIDDLE_TIP == 12
RING_TIP == 16
PINKY_TIP == 20
INDEX_PIP == 6
MIDDLE_PIP == 10
RING_PIP == 14
PINKY_PIP == 18
THUMB_IP == 3

history_size == 5

(* _is_extended: tip above the joint by more than the threshold (0.05) *)
is_extended(tip, pip) == tip.y < pip.y - 5

(* _finger_spread > 0.3, with spread = tipRange / (allRange + 1e-6):       *)
(* in hundredths, tipRange / (allRange + 0.0001) > 3/10.                   *)
TipRange(lm) ==
    LET tips == {lm[i].x : i \in {4, 8, 12, 16, 20}}
    IN  SetMax(tips) - SetMin(tips)

AllRange(lm) ==
    LET all_x == {lm[i].x : i \in DOMAIN lm}
    IN  SetMax(all_x) - SetMin(all_x)

SpreadAbove03(lm) == 100000 * TipRange(lm) > 30000 * AllRange(lm) + 3

(* min(0.95, 0.7 + spread * 0.25) with spread = min(tipRange/(allRange+1e-6), 1.0), *)
(* rounded down to a whole hundredth (a multiple of 6 in confidence units).         *)
OpenPalmConfidence(lm) ==
    LET num == 10000 * TipRange(lm)
        den == 10000 * AllRange(lm) + 1
        q   == IF num >= den THEN 25 ELSE (25 * num) \div den
    IN  6 * Min2(95, 70 + q)

(* _get_point_direction and _get_thumb_direction share the resolution;    *)
(* names is <<left, right, up, down>>.  handedness is accepted and unused. *)
Direction(lm, tipIdx, names) ==
    LET dx == lm[tipIdx].x - lm[WRIST].x
        dy == lm[tipIdx].y - lm[WRIST].y
    IN  IF Abs(dx) > Abs(dy)
        THEN IF dx < -10 THEN names[1]
             ELSE IF dx > 10 THEN names[2]
             ELSE "unknown"
        ELSE IF dy < -10 THEN names[3]
             ELSE IF dy > 10 THEN names[4]
             ELSE "unknown"

get_point_direction(lm, hd) ==
    Direction(lm, INDEX_TIP, <<"left_point", "right_point", "up_point", "down_point">>)

get_thumb_direction(lm, hd) ==
    Direction(lm, THUMB_TIP, <<"thumbs_left", "thumbs_right", "thumbs_up", "thumbs_down">>)

thumb_extended(lm)  == is_extended(lm[THUMB_TIP], lm[THUMB_IP])
index_extended(lm)  == is_extended(lm[INDEX_TIP], lm[INDEX_PIP])
middle_extended(lm) == is_extended(lm[MIDDLE_TIP], lm[MIDDLE_PIP])
ring_extended(lm)   == is_extended(lm[RING_TIP], lm[RING_PIP])
pinky_extended(lm)  == is_extended(lm[PINKY_TIP], lm[PINKY_PIP])

(* the rule predicates with a rock rule that looks at index and pinky only *)
rule_holds_rock_loose(k, lm) ==
    LET t == thumb_extended(lm)
        i == index_extended(lm)
        m == middle_extended(lm)
        r == ring_extended(lm)
        p == pinky_extended(lm)
    IN  CASE k = 1 -> t /\ ~i /\ ~m /\ ~r /\ ~p
          [] k = 2 -> ~(t \/ i \/ m \/ r \/ p)
          [] k = 3 -> (t /\ i /\ m /\ r /\ p) /\ SpreadAbove03(lm)
          [] k = 4 -> i /\ m /\ ~r /\ ~p
          [] k = 5 -> i /\ p
          [] OTHER -> i /\ ~m /\ ~r /\ ~p

(* the conditions of the six rules of classify (lines 59, 64, 68-70, 75,   *)
(* 79 and 83), numbered in the order of the code                           *)
rule_holds(k, lm) ==
    LET t == thumb_extended(lm)
        i == index_extended(lm)
        m == middle_extended(lm)
        r == ring_extended(lm)
        p == pinky_extended(lm)
    IN  CASE k = 1 -> t /\ ~i /\ ~m /\ ~r /\ ~p
          [] k = 2 -> ~(t \/ i \/ m \/ r \/ p)
          [] k = 3 -> (t /\ i /\ m /\ r /\ p) /\ SpreadAbove03(lm)
          [] k = 4 -> i /\ m /\ ~r /\ ~p
          [] k = 5 -> i /\ p /\ ~m /\ ~r
          [] OTHER -> i /\ ~m /\ ~r /\ ~p

(* what each rule returns (lines 60-61, 65, 71-72, 76, 80, 84-85) *)
rule_result(k, lm, hd) ==
    CASE k = 1 -> <<get_thumb_direction(lm, hd), 510>>
      [] k = 2 -> <<"closed_palm", 540>>
      [] k = 3 -> <<"open_palm", OpenPalmConfidence(lm)>>
      [] k = 4 -> <<"victory", 528>>
      [] k = 5 -> <<"rock", 528>>
      [] OTHER -> <<get_point_direction(lm, hd), 480>>

(* classify that rejects only observations shorter than 21 landmarks *)
classify_short_only(lm, hd) ==
    IF Cardinality(DOMAIN lm) < 21 THEN <<"unknown", 0>>
    ELSE
    LET t == thumb_extended(lm)
        i == index_extended(lm)
        m == middle_extended(lm)
        r == ring_extended(lm)
        p == pinky_extended(lm)
    IN  IF t /\ ~i /\ ~m /\ ~r /\ ~p THEN <<get_thumb_direction(lm, hd), 510>>
        ELSE IF ~(t \/ i \/ m \/ r \/ p) THEN <<"closed_palm", 540>>
        ELSE IF (t /\ i /\ m /\ r /\ p) /\ SpreadAbove03(lm)
             THEN <<"open_palm", OpenPalmConfidence(lm)>>
        ELSE IF i /\ m /\ ~r /\ ~p THEN <<"victory", 528>>
        ELSE IF i /\ p /\ ~m /\ ~r THEN <<"rock", 528>>
        ELSE IF i /\ ~m /\ ~r /\ ~p THEN <<get_point_direction(lm, hd), 480>>
        ELSE <<"unknown", 0>>

(* classify with the victory rule not looking at ring and pinky *)
classify_victory_loose(lm, hd) ==
    IF Cardinality(DOMAIN lm) # 21 THEN <<"unknown", 0>>
    ELSE
    LET t == thumb_extended(lm)
        i == index_extended(lm)
        m == middle_extended(lm)
        r == ring_extended(lm)
        p == pinky_extended(lm)
    IN  IF t /\ ~i /\ ~m /\ ~r /\ ~p THEN <<get_thumb_direction(lm, hd), 510>>
        ELSE IF ~(t \/ i \/ m \/ r \/ p) THEN <<"closed_palm", 540>>
        ELSE IF (t /\ i /\ m /\ r /\ p) /\ SpreadAbove03(lm)
             THEN <<"open_palm", OpenPalmConfidence(lm)>>
        ELSE IF i /\ m THEN <<"victory", 528>>
        ELSE IF i /\ p /\ ~m /\ ~r THEN <<"rock", 528>>
        ELSE IF i /\ ~m /\ ~r /\ ~p THEN <<get_point_direction(lm, hd), 480>>
        ELSE <<"unknown", 0>>

(* GestureClassifier.classify: the first matching rule wins *)
classify(lm, hd) ==
    IF Cardinality(DOMAIN lm) # 21 THEN <<"unknown", 0>>
    ELSE
    LET t == thumb_extended(lm)
        i == index_extended(lm)
        m == middle_extended(lm)
        r == ring_extended(lm)
        p == pinky_extended(lm)
    IN  IF t /\ ~i /\ ~m /\ ~r /\ ~p THEN <<get_thumb_direction(lm, hd), 510>>
        ELSE IF ~(t \/ i \/ m \/ r \/ p) THEN <<"closed_palm", 540>>
        ELSE IF (t /\ i /\ m /\ r /\ p) /\ SpreadAbove03(lm)
             THEN <<"open_palm", OpenPalmConfidence(lm)>>
        ELSE IF i /\ m /\ ~r /\ ~p THEN <<"victory", 528>>
        ELSE IF i /\ p /\ ~m /\ ~r THEN <<"rock", 528>>
        ELSE IF i /\ ~m /\ ~r /\ ~p THEN <<get_point_direction(lm, hd), 480>>
        ELSE <<"unknown", 0>>

----------------------------------------------------------------------------
(* Observations: the mock hands of test_gestures.create_mock_landmarks,    *)
(* with the wrist moved so that every direction case occurs.               *)

Pt(px, py) == [x |-> px, y |-> py]

(* finger_states is <<thumb, index, middle, ring, pinky>>; direction is    *)
(* <<>> (None) or <<dx, dy>> in hundredths; only the x of the index tip    *)
(* is moved, by dx * 0.2.                                                  *)
create_mock_landmarks(finger_states, spread, direction) ==
    LET finger(k) == (k - 1) \div 4          \* 1..4 for landmarks 5..20
        joint(k)  == (k - 1) % 4             \* 0 MCP, 1 PIP, 2 DIP, 3 TIP
        base ==
            [k \in 0..20 |->
                IF k = 0 THEN Pt(50, 50)
                ELSE IF k = 1 THEN Pt(45, 50)
                ELSE IF k = 2 THEN Pt(47, 48)
                ELSE IF k = 3 THEN Pt(48, 45)
                ELSE IF k = 4 THEN Pt(50, IF finger_states[1] THEN 30 ELSE 55)
                ELSE IF joint(k) = 0 THEN Pt(50, 48)
                ELSE IF finger_states[finger(k) + 1]
                     THEN Pt(50, CASE joint(k) = 1 -> 35 [] joint(k) = 2 -> 25 [] OTHER -> 15)
                     ELSE Pt(50, CASE joint(k) = 1 -> 50 [] joint(k) = 2 -> 52 [] OTHER -> 55)]
        spreadX(k) == CASE k = 4 -> 30 [] k = 8 -> 40 [] k = 12 -> 50 [] k = 16 -> 60 [] OTHER -> 70
        spreaded ==
            [k \in 0..20 |->
                IF spread /\ k \in {4, 8, 12, 16, 20}
                THEN Pt(spreadX(k), base[k].y) ELSE base[k]]
    IN  IF direction = <<>> THEN spreaded
        ELSE [spreaded EXCEPT ![8] = Pt(50 + (direction[1] * 2) \div 10, spreaded[8].y)]

FingerStates == [1..5 -> BOOLEAN]

MockDirections == {<<>>, <<-40, 0>>, <<40, 0>>, <<0, -40>>, <<0, 40>>}

(* (dx, dy) of a tip relative to the wrist that the observations realise: *)
(* the four unit directions of the tests, two dead-zone vectors and a     *)
(* diagonal one.                                                           *)
TipOffsets == {<<-40, 0>>, <<40, 0>>, <<0, -40>>, <<0, 40>>, <<5, 5>>, <<-10, 3>>, <<20, 20>>}

(* the observation with the wrist placed so that landmark tipIdx lies at off from it *)
WithWrist(lm, tipIdx, off) ==
    [lm EXCEPT ![WRIST] = Pt(lm[tipIdx].x - off[1], lm[tipIdx].y - off[2])]

Mocks ==
    {create_mock_landmarks(fs, sp, d) : fs \in FingerStates, sp \in BOOLEAN, d \in MockDirections}

Observations ==
    Mocks
    \cup {WithWrist(lm, THUMB_TIP, off) : lm \in Mocks, off \in TipOffsets}
    \cup {WithWrist(lm, INDEX_TIP, off) : lm \in Mocks, off \in TipOffsets}

Handedness == {"Left", "Right"}

(* malformed observations: no landmark, 20 of the 21, or one too many *)
Malformed ==
    LET hands == {create_mock_landmarks(fs, FALSE, <<>>) :
                     fs \in {[f \in 1..5 |-> FALSE], [f \in 1..5 |-> f = 2]}}
    IN  {<<>>}
        \cup {[k \in 0..19 |-> lm[k]] : lm \in hands}
        \cup {[k \in 0..21 |-> IF k <= 20 THEN lm[k] ELSE Pt(50, 50)] : lm \in hands}

(* smoothing histories the classifier instance holds when classify is called *)
ClassifierHistories ==
    {<<>>, <<<<"victory", 528>>>>, <<<<"closed_palm", 540>>, <<"unknown", 0>>>>}

----------------------------------------------------------------------------
(* smooth_gesture averaging over the whole history instead of the last 3 *)
smooth_gesture_whole_history(history, gesture, confidence) ==
    LET h1 == Append(history, <<gesture, confidence>>)
        h  == IF Len(h1) > history_size THEN Tail(h1) ELSE h1
        recent == h
    IN  IF CountName(recent, gesture) >= 2
        THEN [history |-> h, result |-> <<gesture, SumConf(recent) \div Len(recent)>>]
        ELSE IF gesture # "unknown"
        THEN [history |-> h, result |-> <<gesture, confidence>>]
        ELSE IF Len(h) > 1
        THEN [history |-> h, result |-> <<h[Len(h) - 1][1], h[Len(h) - 1][2] \div 2>>]
        ELSE [history |-> h, result |-> <<"unknown", 0>>]

(* smooth_gesture whose dropout fallback does not halve the confidence *)
smooth_gesture_no_decay(history, gesture, confidence) ==
    LET h1 == Append(history, <<gesture, confidence>>)
        h  == IF Len(h1) > history_size THEN Tail(h1) ELSE h1
        recent == LastN(h, 3)
    IN  IF CountName(recent, gesture) >= 2
        THEN [history |-> h, result |-> <<gesture, SumConf(recent) \div Len(recent)>>]
        ELSE IF gesture # "unknown"
        THEN [history |-> h, result |-> <<gesture, confidence>>]
        ELSE IF Len(h) > 1
        THEN [history |-> h, result |-> <<h[Len(h) - 1][1], h[Len(h) - 1][2]>>]
        ELSE [history |-> h, result |-> <<"unknown", 0>>]

(* GestureClassifier.smooth_gesture: returns the new history and the       *)
(* (gesture, smoothed confidence) pair.                                    *)
smooth_gesture(history, gesture, confidence) ==
    LET h1 == Append(history, <<gesture, confidence>>)
        h  == IF Len(h1) > history_size THEN Tail(h1) ELSE h1
        recent == LastN(h, 3)
    IN  IF CountName(recent, gesture) >= 2
        THEN [history |-> h, result |-> <<gesture, SumConf(recent) \div Len(recent)>>]
        ELSE IF gesture # "unknown"
        THEN [history |-> h, result |-> <<gesture, confidence>>]
        ELSE IF Len(h) > 1
        THEN [history |-> h, result |-> <<h[Len(h) - 1][1], h[Len(h) - 1][2] \div 2>>]
        ELSE [history |-> h, result |-> <<"unknown", 0>>]

----------------------------------------------------------------------------
(* command_mapper: the gesture table (the emoji that end four of the texts *)
(* are left out), get_gesture_command and is_critical_command              *)

GESTURE_TO_COMMAND ==
    [g \in {"left_point", "right_point", "up_point", "down_point",
            "thumbs_up", "thumbs_down", "thumbs_left", "thumbs_right",
            "victory", "rock", "open_palm", "closed_palm"} |->
        CASE g = "left_point"   -> <<"LEFT MOVE", <<0, 255, 0>>>>
          [] g = "right_point"  -> <<"RIGHT MOVE", <<0, 255, 0>>>>
          [] g = "up_point"     -> <<"UPWARD MOVE", <<0, 255, 0>>>>
          [] g = "down_point"   -> <<"DOWNWARD MOVE", <<0, 255, 0>>>>
          [] g = "thumbs_up"    -> <<"MOVE UP", <<255, 100, 100>>>>
          [] g = "thumbs_down"  -> <<"MOVE DOWN", <<255, 100, 100>>>>
          [] g = "thumbs_left"  -> <<"MOVE LEFT", <<100, 255, 100>>>>
          [] g = "thumbs_right" -> <<"MOVE RIGHT", <<100, 255, 100>>>>
          [] g = "victory"      -> <<"VICTORY CELEBRATION!", <<0, 200, 255>>>>
          [] g = "rock"         -> <<"BACKFLIP!", <<255, 0, 255>>>>
          [] g = "open_palm"    -> <<"STOP IMMEDIATELY", <<0, 0, 255>>>>
          [] OTHER              -> <<"LAND", <<255, 0, 0>>>>]

(* GESTURE_TO_COMMAND.get(gesture, ("", (128, 128, 128))) *)
get_gesture_command(gesture) ==
    IF gesture \in DOMAIN GESTURE_TO_COMMAND
    THEN GESTURE_TO_COMMAND[gesture]
    ELSE <<"", <<128, 128, 128>>>>

(* is_critical_command that knows the stop command only *)
is_critical_command_stop_only(gesture) == gesture = "open_palm"

is_critical_command(gesture) == gesture \in {"open_palm", "closed_palm"}

(* main, lines 133-142: the command of a validated gesture and whether the *)
(* border of a critical command is drawn                                   *)
emitted_command(validated) ==
    IF validated # "None"
    THEN [cmd |-> get_gesture_command(validated), critical |-> is_critical_command(validated)]
    ELSE [cmd |-> <<>>, critical |-> FALSE]

----------------------------------------------------------------------------
(* hand_gesture.main: the validation window (lines 109-131) *)

confidence_threshold == 420

min_frames_required == 10

max_frames == 12

(* append_evict without the test for unknown *)
append_evict_any(buf, gesture, confidence) ==
    LET b1 == Append(buf, <<gesture, confidence>>)
    IN  IF Len(b1) > max_frames THEN Tail(b1) ELSE b1

(* lines 110-115: append a non-unknown result, keep only the last 12 *)
append_evict(buf, gesture, confidence) ==
    LET b1 == IF gesture # "unknown" THEN Append(buf, <<gesture, confidence>>) ELSE buf
    IN  IF Len(b1) > max_frames THEN Tail(b1) ELSE b1

(* line 124: max(set(gesture_names), key=gesture_names.count) returns one  *)
(* of the labels of maximal count; which one depends on the set's order.   *)
most_common_choices(buf) ==
    LET names == {buf[i][1] : i \in 1..Len(buf)}
        top == SetMax({CountName(buf, g) : g \in names})
    IN  {g \in names : CountName(buf, g) = top}

(* validation_check accepting a mean confidence equal to the threshold *)
validation_check_ge(buf, most_common) ==
    IF CountName(buf, most_common) >= min_frames_required
       /\ SumConf(buf) >= confidence_threshold * Len(buf)
    THEN [validated |-> most_common, buffer |-> <<>>]
    ELSE [validated |-> "None", buffer |-> buf]

(* validation_check that keeps the buffer after an emission *)
validation_check_no_reset(buf, most_common) ==
    IF CountName(buf, most_common) >= min_frames_required
       /\ SumConf(buf) > confidence_threshold * Len(buf)
    THEN [validated |-> most_common, buffer |-> buf]
    ELSE [validated |-> "None", buffer |-> buf]

(* validation_check that drops only the oldest entry after an emission *)
validation_check_partial_reset(buf, most_common) ==
    IF CountName(buf, most_common) >= min_frames_required
       /\ SumConf(buf) > confidence_threshold * Len(buf)
    THEN [validated |-> most_common, buffer |-> Tail(buf)]
    ELSE [validated |-> "None", buffer |-> buf]

(* validation_check asking for more than 10 occurrences *)
validation_check_over_ten(buf, most_common) ==
    IF CountName(buf, most_common) > min_frames_required
       /\ SumConf(buf) > confidence_threshold * Len(buf)
    THEN [validated |-> most_common, buffer |-> <<>>]
    ELSE [validated |-> "None", buffer |-> buf]

(* lines 125-131 for one choice of most_common *)
validation_check(buf, most_common) ==
    IF CountName(buf, most_common) >= min_frames_required
       /\ SumConf(buf) > confidence_threshold * Len(buf)
    THEN [validated |-> most_common, buffer |-> <<>>]
    ELSE [validated |-> "None", buffer |-> buf]

(* lines 109-131: the possible outcomes of one processed observation *)
window_outcomes(buf, gesture, confidence) ==
    LET b == append_evict(buf, gesture, confidence)
    IN  IF Len(b) >= min_frames_required
        THEN {validation_check(b, mc) : mc \in most_common_choices(b)}
        ELSE {[validated |-> "None", buffer |-> b]}

----------------------------------------------------------------------------
(* Bounds *)

MaxFrames == 6      \* frames of the camera loop that are explored

MaxStream == 30     \* length of the constant streams that are followed

MaxRun == 4         \* run lengths of identical smoother arguments are counted up to this

HandSlots == {0, 1}

----------------------------------------------------------------------------
(* Idle values of the variables a specification does not use *)

ClassifyIdle == landmarks = <<>> /\ handedness = "Right" /\ classified = <<>>

SmoothIdle ==
    /\ smoothed = <<>> /\ prev_input = <<>> /\ cur_input = <<>>
    /\ run_n = 0 /\ run_first = 0

WindowIdle ==
    /\ validated_gesture = "None" /\ pre_check = <<>>
    /\ stream_first = <<>> /\ stream_n = 0 /\ stream_ok = TRUE /\ emit_frames = {}

MainIdle ==
    /\ frame_count = 0
    /\ out = [h \in HandSlots |-> <<>>]
    /\ iso_history = [h \in HandSlots |-> <<>>]
    /\ iso_buffer = [h \in HandSlots |-> <<>>]
    /\ iso_out = [h \in HandSlots |-> <<>>]

----------------------------------------------------------------------------
CommandIdle == display_cmd = <<>> /\ critical_border = FALSE /\ lookup = <<>>

----------------------------------------------------------------------------
(* SpecClassify: classify applied to one observation *)

InitClassify ==
    /\ landmarks \in Observations \cup Malformed
    /\ handedness \in Handedness
    /\ classified = <<>>
    /\ gesture_history \in ClassifierHistories /\ SmoothIdle
    /\ gesture_frame_history = <<>> /\ WindowIdle
    /\ MainIdle
    /\ CommandIdle

Classify ==
    /\ classified = <<>>
    /\ classified' = classify(landmarks, handedness)
    /\ UNCHANGED <<landmarks, handedness, smoothVars, windowVars, mainVars, commandVars>>

NextClassify == Classify

SpecClassify == InitClassify /\ [][NextClassify]_vars

----------------------------------------------------------------------------
(* SpecSmooth: one classifier instance fed a sequence of raw results *)

(* the hands whose raw classification results are fed to the smoother *)
SmoothHands ==
    { create_mock_landmarks(<<FALSE, TRUE, FALSE, FALSE, FALSE>>, FALSE, <<>>),      \* up_point 0.80
      create_mock_landmarks(<<FALSE, FALSE, FALSE, FALSE, FALSE>>, FALSE, <<>>),     \* closed_palm 0.90
      create_mock_landmarks(<<TRUE, TRUE, TRUE, TRUE, TRUE>>, TRUE, <<>>),           \* open_palm 0.95
      WithWrist(create_mock_landmarks(<<TRUE, TRUE, TRUE, TRUE, TRUE>>, TRUE, <<>>),
                INDEX_TIP, <<-40, 0>>),                                              \* open_palm, wider hand
      create_mock_landmarks(<<FALSE, FALSE, TRUE, FALSE, FALSE>>, FALSE, <<>>),      \* no rule: unknown 0.0
      WithWrist(create_mock_landmarks(<<TRUE, FALSE, FALSE, FALSE, FALSE>>, FALSE, <<>>),
                THUMB_TIP, <<5, 5>>) }                                               \* thumb in the dead zone

RawResults == {classify(lm, "Right") : lm \in SmoothHands}

InitSmooth ==
    /\ gesture_history = <<>>
    /\ SmoothIdle
    /\ ClassifyIdle
    /\ gesture_frame_history = <<>> /\ WindowIdle
    /\ MainIdle
    /\ CommandIdle

Smooth(gesture, confidence) ==
    LET r == smooth_gesture(gesture_history, gesture, confidence)
        same == cur_input = <<gesture, confidence>>
    IN  /\ gesture_history' = r.history
        /\ smoothed' = r.result
        /\ prev_input' = cur_input
        /\ cur_input' = <<gesture, confidence>>
        /\ run_n' = IF same THEN Min2(run_n + 1, MaxRun) ELSE 1
        /\ run_first' = IF same THEN run_first ELSE r.result[2]
        /\ UNCHANGED <<classifyVars, windowVars, mainVars, commandVars>>

NextSmooth == \E raw \in RawResults : Smooth(raw[1], raw[2])

SpecSmooth == InitSmooth /\ [][NextSmooth]_vars

----------------------------------------------------------------------------
(* SpecWindow: one validation buffer fed a sequence of smoothed results *)

(* smoothed results smooth_gesture returns: an index point at 0.80, the    *)
(* same point through a one-frame dropout (0.80 halved), victory at 0.88   *)
(* and unknown.                                                            *)
SmoothedInputs ==
    {<<"left_point", 480>>, <<"left_point", 240>>, <<"victory", 528>>, <<"unknown", 0>>}

InitWindow ==
    /\ gesture_frame_history = <<>>
    /\ WindowIdle
    /\ ClassifyIdle
    /\ gesture_history = <<>> /\ SmoothIdle
    /\ MainIdle
    /\ CommandIdle

(* the loop body of main from line 109 to line 142 for one smoothed result *)
Feed(gesture, confidence) ==
    LET constant == stream_ok /\ stream_first \in {<<>>, <<gesture, confidence>>}
    IN  /\ constant => stream_n < MaxStream
        /\ \E o \in window_outcomes(gesture_frame_history, gesture, confidence) :
              /\ gesture_frame_history' = o.buffer
              /\ validated_gesture' = o.validated
              /\ display_cmd' = emitted_command(o.validated).cmd
              /\ critical_border' = emitted_command(o.validated).critical
              /\ emit_frames' = IF ~constant THEN {}
                                ELSE IF o.validated # "None"
                                     THEN emit_frames \cup {stream_n + 1}
                                     ELSE emit_frames
        /\ pre_check' = append_evict(gesture_frame_history, gesture, confidence)
        /\ stream_ok' = constant
        /\ stream_first' = IF constant THEN <<gesture, confidence>> ELSE <<>>
        /\ stream_n' = IF constant THEN stream_n + 1 ELSE 0
        /\ UNCHANGED <<classifyVars, smoothVars, mainVars, lookup>>

NextWindow == \E s \in SmoothedInputs : Feed(s[1], s[2])

SpecWindow == InitWindow /\ [][NextWindow]_vars

----------------------------------------------------------------------------
(* Spec: the camera loop of main.  Every frame delivers zero, one or two   *)
(* hands; hand idx of the frame is processed by the one GestureClassifier  *)
(* and the one gesture_frame_history that main creates (lines 53 and 62).  *)
(* Beside them, iso_history[idx] and iso_buffer[idx] are run on the stream *)
(* of slot idx alone, with the same operators.                             *)

(* the hands shown to the camera *)
MainHands ==
    { create_mock_landmarks(<<FALSE, TRUE, TRUE, FALSE, FALSE>>, FALSE, <<>>),     \* victory 0.88
      create_mock_landmarks(<<FALSE, FALSE, TRUE, FALSE, FALSE>>, FALSE, <<>>) }   \* no rule: unknown 0.0

(* detection_result.hand_landmarks of one frame *)
Detections ==
    {<<>>} \cup {<<a>> : a \in MainHands} \cup {<<a, b>> : a \in MainHands, b \in MainHands}

SlotHandedness(idx) == IF idx = 0 THEN "Right" ELSE "Left"

(* lines 98-131 for hand idx of the frame, on the state record st *)
ProcessHand(st, idx, lm) ==
    LET raw == classify(lm, SlotHandedness(idx))
        sm  == smooth_gesture(st.gesture_history, raw[1], raw[2])
        ism == smooth_gesture(st.iso_history[idx], raw[1], raw[2])
    IN  { [gesture_history       |-> sm.history,
           gesture_frame_history |-> o.buffer,
           out         |-> [st.out EXCEPT ![idx] = <<sm.result, o.validated>>],
           iso_history |-> [st.iso_history EXCEPT ![idx] = ism.history],
           iso_buffer  |-> [st.iso_buffer EXCEPT ![idx] = io.buffer],
           iso_out     |-> [st.iso_out EXCEPT ![idx] = <<ism.result, io.validated>>]] :
          o  \in window_outcomes(st.gesture_frame_history, sm.result[1], sm.result[2]),
          io \in window_outcomes(st.iso_buffer[idx], ism.result[1], ism.result[2]) }

(* line 87: for idx, hand_landmarks in enumerate(...) *)
RECURSIVE ProcessHands(_, _, _)
ProcessHands(st, hands, idx) ==
    IF idx >= Len(hands) THEN {st}
    ELSE UNION {ProcessHands(s2, hands, idx + 1) : s2 \in ProcessHand(st, idx, hands[idx + 1])}

Init ==
    /\ gesture_history = <<>>
    /\ gesture_frame_history = <<>>
    /\ MainIdle
    /\ CommandIdle
    /\ ClassifyIdle
    /\ SmoothIdle
    /\ WindowIdle

(* one iteration of the while loop of main (lines 68-182) *)
Frame ==
    /\ frame_count < MaxFrames
    /\ \E hands \in Detections :
         \E s2 \in ProcessHands([gesture_history |-> gesture_history,
                                 gesture_frame_history |-> gesture_frame_history,
                                 out |-> out, iso_history |-> iso_history,
                                 iso_buffer |-> iso_buffer, iso_out |-> iso_out], hands, 0) :
            /\ gesture_history' = s2.gesture_history
            /\ gesture_frame_history' = s2.gesture_frame_history
            /\ out' = s2.out
            /\ iso_history' = s2.iso_history
            /\ iso_buffer' = s2.iso_buffer
            /\ iso_out' = s2.iso_out
            /\ display_cmd' = IF hands = <<>> THEN display_cmd
                              ELSE emitted_command(s2.out[Len(hands) - 1][2]).cmd
            /\ critical_border' = IF hands = <<>> THEN critical_border
                                  ELSE emitted_command(s2.out[Len(hands) - 1][2]).critical
    /\ frame_count' = frame_count + 1
    /\ UNCHANGED <<lookup, classifyVars, smoothed, prev_input, cur_input, run_n, run_first,
                   validated_gesture, pre_check, stream_first, stream_n, stream_ok, emit_frames>>

Next == Frame

Spec == Init /\ [][Next]_vars

----------------------------------------------------------------------------
(* SpecCommand: the command mapper, called directly and on the emissions   *)
(* of a window fed a constant stream of one smoothed result.               *)

(* every gesture label at the confidence classify gives it, open_palm at   *)
(* 0.95, victory at 0.90 and a dropout-weakened closed_palm                *)
CommandStreams ==
    {<<"left_point", 480>>, <<"right_point", 480>>, <<"up_point", 480>>, <<"down_point", 480>>,
     <<"thumbs_up", 510>>, <<"thumbs_down", 510>>, <<"thumbs_left", 510>>, <<"thumbs_right", 510>>,
     <<"victory", 528>>, <<"victory", 540>>, <<"rock", 528>>,
     <<"open_palm", 570>>, <<"closed_palm", 540>>, <<"closed_palm", 270>>, <<"unknown", 0>>}

(* keys get_gesture_command and is_critical_command are called with: the   *)
(* gesture labels, unknown, the shape labels and strings that are no label *)
LookupKeys ==
    DOMAIN GESTURE_TO_COMMAND
    \cup {"unknown", "circle", "square", "triangle", "line", "", "None", "OPEN_PALM", "thumbs"}

InitCommand ==
    /\ gesture_frame_history = <<>>
    /\ WindowIdle
    /\ ClassifyIdle
    /\ gesture_history = <<>> /\ SmoothIdle
    /\ MainIdle
    /\ CommandIdle

StreamFrame ==
    \E s \in CommandStreams :
        /\ stream_first \in {<<>>, s}
        /\ Feed(s[1], s[2])

Lookup ==
    \E k \in LookupKeys :
        /\ lookup' = <<k, get_gesture_command(k), is_critical_command(k)>>
        /\ UNCHANGED <<classifyVars, smoothVars, windowVars, mainVars, display_cmd, critical_border>>

NextCommand == StreamFrame \/ Lookup

SpecCommand == InitCommand /\ [][NextCommand]_vars

----------------------------------------------------------------------------
(* Properties of the validation window (SpecWindow) *)

ModalCount(b) ==
    IF b = <<>> THEN 0
    ELSE SetMax({CountName(b, g) : g \in {b[i][1] : i \in 1..Len(b)}})

(* at least 10 entries, the most frequent label at least 10 times, mean confidence > 0.7 *)
EmitCondition(b) ==
    /\ Len(b) >= 10
    /\ SumConf(b) > 420 * Len(b)
    /\ ModalCount(b) >= 10

(* C1: an observation emits a validated command if and only if the buffer, *)
(* after the append and the eviction of that observation, holds at least   *)
(* 10 entries, its most frequent label occurs at least 10 times and the    *)
(* mean confidence of the whole buffer is above 0.7; the emitted label is  *)
(* that most frequent label and the buffer is empty right after; nothing   *)
(* is emitted while no label has 10 occurrences.                           *)
C1_EmitIff ==
    /\ (validated_gesture # "None") <=> EmitCondition(pre_check)
    /\ validated_gesture # "None" =>
          /\ CountName(pre_check, validated_gesture) = ModalCount(pre_check)
          /\ gesture_frame_history = <<>>
    /\ ModalCount(pre_check) < 10 =>
          /\ validated_gesture = "None"
          /\ gesture_frame_history = pre_check

C1_Witness ==
    /\ validated_gesture = "left_point"
    /\ Len(pre_check) = 12
    /\ CountName(pre_check, "victory") = 2
    /\ gesture_frame_history = <<>>

(* C2: from an empty buffer, ten identical results (X, 0.8), X not         *)
(* unknown, emit nothing on the results 1 to 9, emit X on the 10th and     *)
(* leave the buffer empty; the 11th and 12th do not emit again.            *)
C2_TenIdentical ==
    (stream_ok /\ stream_first # <<>> /\ stream_first[2] = 480
       /\ stream_first[1] # "unknown" /\ stream_n <= 12) =>
        /\ stream_n <= 9 => emit_frames = {} /\ validated_gesture = "None"
        /\ stream_n = 10 => /\ validated_gesture = stream_first[1]
                            /\ gesture_frame_history = <<>>
        /\ stream_n >= 10 => emit_frames = {10}
        /\ stream_n \in {11, 12} => /\ validated_gesture = "None"
                                    /\ Len(gesture_frame_history) = stream_n - 10

C2_Witness ==
    /\ stream_ok /\ stream_first = <<"left_point", 480>>
    /\ stream_n = 12
    /\ emit_frames = {10}

(* C4: after every processed observation the buffer holds at most 12       *)
(* entries, none of them labelled unknown, and unknown is never emitted.   *)
C4_BufferBounded ==
    /\ Len(gesture_frame_history) <= 12
    /\ \A i \in 1..Len(gesture_frame_history) : gesture_frame_history[i][1] # "unknown"
    /\ validated_gesture # "unknown"

C4_Witness ==
    /\ Len(gesture_frame_history) = 12
    /\ pre_check = gesture_frame_history
    /\ CountName(gesture_frame_history, "victory") = 6
    /\ CountName(gesture_frame_history, "left_point") = 6

(* C9: under a sustained stream of one gesture X, not unknown, with a      *)
(* constant confidence above 0.7, X is emitted exactly on every 10th       *)
(* result (10, 20, 30, ...) and on no other, hence never twice in a row.   *)
C9_EveryTenth ==
    (stream_ok /\ stream_first # <<>> /\ stream_first[1] # "unknown"
       /\ stream_first[2] > 420) =>
        /\ emit_frames = {k \in 1..stream_n : k % 10 = 0}
        /\ validated_gesture = IF stream_n % 10 = 0 THEN stream_first[1] ELSE "None"

C9_Witness ==
    /\ stream_ok /\ stream_first = <<"victory", 528>>
    /\ stream_n = 30
    /\ emit_frames = {10, 20, 30}

----------------------------------------------------------------------------
(* Properties of the camera loop (Spec) *)

(* C3: each hand has its own smoothing history and validation buffer: the  *)
(* smoothed result and the validated emission produced for a hand slot are *)
(* those of a smoother and a window fed that slot's stream alone.          *)
C3_HandsIndependent == \A h \in HandSlots : out[h] = iso_out[h]

----------------------------------------------------------------------------
(* Properties of classify (SpecClassify) *)

Fingers(lm) ==
    [f \in 1..5 |->
        CASE f = 1 -> lm[4].y < lm[3].y - 5
          [] f = 2 -> lm[8].y < lm[6].y - 5
          [] f = 3 -> lm[12].y < lm[10].y - 5
          [] f = 4 -> lm[16].y < lm[14].y - 5
          [] OTHER -> lm[20].y < lm[18].y - 5]

(* "left", "right", "up", "down", or "none" in the dead zone *)
TipDirection(lm, tipIdx) ==
    LET dx == lm[tipIdx].x - lm[0].x
        dy == lm[tipIdx].y - lm[0].y
    IN  CASE Abs(dx) > Abs(dy) /\ dx < -10 -> "left"
          [] Abs(dx) > Abs(dy) /\ dx > 10 -> "right"
          [] Abs(dx) <= Abs(dy) /\ dy < -10 -> "up"
          [] Abs(dx) <= Abs(dy) /\ dy > 10 -> "down"
          [] OTHER -> "none"

Classified21 == classified # <<>> /\ DOMAIN landmarks = 0..20

PointLabels == {"left_point", "right_point", "up_point", "down_point"}

(* C5: the label unknown is always returned with confidence 0.0, also when *)
(* the thumb-only rule or the index-point rule finds the direction         *)
(* unresolved.                                                             *)
C5_UnknownIsZero ==
    (classified # <<>> /\ classified[1] = "unknown") => classified[2] = 0

(* C7: closed_palm 0.90 for five closed fingers; the thumbs label of the   *)
(* thumb direction with 0.85 when only the thumb is extended; open_palm    *)
(* for five extended fingers with spread > 0.3; victory 0.88 for index and *)
(* middle with the others closed; rock 0.88 for index and pinky with the   *)
(* others closed; (unknown, 0.0) for five extended fingers with spread     *)
(* <= 0.3 and when no rule matches.                                        *)
C7_RuleTable ==
    Classified21 =>
      LET f == Fingers(landmarks)
          all == \A k \in 1..5 : f[k]
          wide == 100000 * TipRange(landmarks) > 30000 * AllRange(landmarks) + 3
          td == TipDirection(landmarks, 4)
          thumbOnly == f = <<TRUE, FALSE, FALSE, FALSE, FALSE>>
          closed  == f = <<FALSE, FALSE, FALSE, FALSE, FALSE>>
          victory == f[2] /\ f[3] /\ ~f[4] /\ ~f[5]
          rock    == f[2] /\ f[5] /\ ~f[3] /\ ~f[4]
          point   == f[2] /\ ~f[3] /\ ~f[4] /\ ~f[5]
      IN  /\ closed => classified = <<"closed_palm", 540>>
          /\ (thumbOnly /\ td # "none") => classified = <<"thumbs_" \o td, 510>>
          /\ (all /\ wide) => classified[1] = "open_palm"
          /\ f = <<FALSE, TRUE, TRUE, FALSE, FALSE>> => classified = <<"victory", 528>>
          /\ f = <<FALSE, TRUE, FALSE, FALSE, TRUE>> => classified = <<"rock", 528>>
          /\ (all /\ ~wide) => classified = <<"unknown", 0>>
          /\ ~(thumbOnly \/ closed \/ (all /\ wide) \/ victory \/ rock \/ point)
                => classified = <<"unknown", 0>>

C7_Witness ==
    /\ Classified21
    /\ Fingers(landmarks) = <<TRUE, TRUE, TRUE, TRUE, TRUE>>
    /\ TipRange(landmarks) = 0
    /\ classified = <<"unknown", 0>>

(* C8: a point label is returned only when the index finger is the only    *)
(* extended finger; then the label is left_point for (dx, dy) = (-0.4, 0), *)
(* right_point for (0.4, 0), up_point for (0, -0.4) and down_point for     *)
(* (0, 0.4), each with confidence 0.80.                                    *)
C8_PointOnlyIndex ==
    Classified21 =>
      LET f == Fingers(landmarks)
          dx == landmarks[8].x - landmarks[0].x
          dy == landmarks[8].y - landmarks[0].y
          onlyIndex == f = <<FALSE, TRUE, FALSE, FALSE, FALSE>>
      IN  /\ classified[1] \in PointLabels => onlyIndex
          /\ (onlyIndex /\ dx = -40 /\ dy = 0) => classified = <<"left_point", 480>>
          /\ (onlyIndex /\ dx = 40 /\ dy = 0) => classified = <<"right_point", 480>>
          /\ (onlyIndex /\ dx = 0 /\ dy = -40) => classified = <<"up_point", 480>>
          /\ (onlyIndex /\ dx = 0 /\ dy = 40) => classified = <<"down_point", 480>>

----------------------------------------------------------------------------
(* Properties of smooth_gesture (SpecSmooth) *)

(* C6: when the same non-unknown result (X, c) is fed three or more times  *)
(* in a row, the smoothed confidence of the third and of every later call  *)
(* is at least the smoothed confidence returned on the first call of the   *)
(* run.                                                                    *)
C6_NonDecreasing ==
    (run_n >= 3 /\ cur_input[1] # "unknown") => smoothed[2] >= run_first

(* C6 as amended: from the third call of the run on, the result is X with  *)
(* the mean of three confidences c, which is c in exact arithmetic.        *)
C6_ThirdCallIsInput ==
    (run_n >= 3 /\ cur_input[1] # "unknown") => smoothed = cur_input

C6_Witness ==
    /\ run_n = 3
    /\ cur_input = <<"up_point", 480>>
    /\ run_first > 480
    /\ smoothed = <<"up_point", 480>>

(* C10: unknown directly after a non-unknown X of confidence c, with fewer *)
(* than two unknown among the last 3 history entries, returns (X, c/2);    *)
(* unknown a second time in a row returns the label unknown.               *)
C10_Dropout ==
    (cur_input # <<>> /\ cur_input[1] = "unknown" /\ prev_input # <<>>) =>
        /\ (prev_input[1] # "unknown"
              /\ CountName(LastN(gesture_history, 3), "unknown") < 2)
             => /\ smoothed[1] = prev_input[1]
                /\ 2 * smoothed[2] = prev_input[2]
        /\ prev_input[1] = "unknown" => smoothed[1] = "unknown"

C10_Witness ==
    /\ cur_input = <<"unknown", 0>>
    /\ prev_input = <<"closed_palm", 540>>
    /\ smoothed = <<"closed_palm", 270>>
    /\ Len(gesture_history) = 5

----------------------------------------------------------------------------
(* Properties of the command mapper (SpecCommand) *)

EmittableLabels ==
    {"left_point", "right_point", "up_point", "down_point",
     "thumbs_up", "thumbs_down", "thumbs_left", "thumbs_right",
     "victory", "rock", "open_palm", "closed_palm"}

(* C11: each of the twelve labels the window can emit maps to a non-empty  *)
(* command text, every other key (unknown too) maps to the fallback with   *)
(* empty text; an emitted command is critical exactly for open_palm and    *)
(* closed_palm: ten (open_palm, 0.95) are emitted as critical, ten         *)
(* (victory, 0.9) are emitted and not critical.                            *)
C11_CommandTable ==
    /\ lookup # <<>> =>
          /\ lookup[1] \in EmittableLabels => lookup[2][1] # ""
          /\ lookup[1] \notin EmittableLabels => lookup[2] = <<"", <<128, 128, 128>>>>
          /\ lookup[3] = (lookup[1] \in {"open_palm", "closed_palm"})
    /\ validated_gesture # "None" =>
          /\ validated_gesture \in EmittableLabels
          /\ display_cmd # <<>> /\ display_cmd[1] # ""
          /\ critical_border = (validated_gesture \in {"open_palm", "closed_palm"})
    /\ validated_gesture = "None" => display_cmd = <<>> /\ ~critical_border
    /\ (stream_ok /\ stream_n = 10 /\ stream_first = <<"open_palm", 570>>) =>
          validated_gesture = "open_palm" /\ critical_border
    /\ (stream_ok /\ stream_n = 10 /\ stream_first = <<"victory", 540>>) =>
          validated_gesture = "victory" /\ ~critical_border

C11_Witness ==
    /\ stream_ok /\ stream_n = 10 /\ stream_first = <<"closed_palm", 540>>
    /\ validated_gesture = "closed_palm"
    /\ display_cmd = <<"LAND", <<255, 0, 0>>>>
    /\ critical_border
    /\ lookup # <<>> /\ lookup[1] = "unknown"

----------------------------------------------------------------------------
(* Further properties of classify (SpecClassify) *)

(* C12: classify called with a landmark sequence whose length is not 21    *)
(* returns (unknown, 0.0) and leaves the smoothing history of the          *)
(* classifier as it was.                                                   *)
C12_MalformedUnknown ==
    [][(Cardinality(DOMAIN landmarks) # 21) =>
          /\ classified' = <<"unknown", 0>>
          /\ gesture_history' = gesture_history]_vars

C12_Witness ==
    /\ Cardinality(DOMAIN landmarks) = 22
    /\ classified = <<"unknown", 0>>
    /\ Len(gesture_history) = 2

(* C13: for every combination of the five finger states and either outcome *)
(* of the spread test at most one rule of the cascade holds; classify      *)
(* returns the result of whichever rule holds, and (unknown, 0.0) when     *)
(* none does, so the order in which the rules are tried does not matter.   *)
C13_RulesExclusive ==
    Classified21 =>
        /\ Cardinality({k \in 1..6 : rule_holds(k, landmarks)}) <= 1
        /\ \A k \in 1..6 : rule_holds(k, landmarks) =>
              classified = rule_result(k, landmarks, handedness)
        /\ (\A k \in 1..6 : ~rule_holds(k, landmarks)) => classified = <<"unknown", 0>>

C13_Witness ==
    /\ Classified21
    /\ Fingers(landmarks) = <<TRUE, TRUE, TRUE, TRUE, TRUE>>
    /\ rule_holds(3, landmarks)
    /\ classified[1] = "open_palm"

----------------------------------------------------------------------------
(* Further properties of the validation window (SpecWindow) *)

(* C14: at the end of every observation the buffer does not satisfy the    *)
(* emission condition (at least 10 entries, modal count at least 10, mean  *)
(* confidence above 0.7); hence an observation whose smoothed result is    *)
(* unknown, which runs the check again on the unchanged buffer, leaves the *)
(* buffer as it was and emits nothing.                                     *)
C14_NoPendingEmission ==
    /\ ~EmitCondition(gesture_frame_history)
    /\ window_outcomes(gesture_frame_history, "unknown", 0)
          = {[validated |-> "None", buffer |-> gesture_frame_history]}

(* the check ran on ten entries of one label and emitted nothing *)
C14_Witness ==
    /\ Len(gesture_frame_history) >= 10
    /\ ModalCount(gesture_frame_history) >= 10
    /\ pre_check = gesture_frame_history
    /\ validated_gesture = "None"

====
